---- MODULE Spec2Model ----
(***************************************************************************)
(* Model of "Batch relink/c1-batch-relink.py": the candidate index built   *)
(* from the new-location tree (generate_directory_dict) and the            *)
(* reconciliation loop over the catalog images of Capture One.             *)
(*                                                                         *)
(* Representation.                                                         *)
(*   atom       a string that the model never splits ("IMG", ".CR3", "/")  *)
(*   component  a sequence of atoms: one path segment (<<"IMG", ".CR3">>)  *)
(*   path       a sequence of components, absolute (pathlib.Path)          *)
(*   size       <<hi, lo>>, the number hi * 65536 + lo with lo < 65536;    *)
(*              an unsigned 32 bit value has hi < 65536.  Python integers  *)
(*              are unbounded, those of TLC are signed 32 bit, hence the *)
(*              two halves.                                                *)
(***************************************************************************)
EXTENDS Integers, Sequences, FiniteSets, TLC

VARIABLES
    fs,                  \* regular files on disk: path -> st_size
    catalog,             \* Capture One's image records: handle -> record
    provider_images,     \* what the provider's enumeration yields
    arguments,           \* docopt result: mode, --verbose, --dry-run
    pc,                  \* position of the script
    new_location_files,  \* the candidate index (line 111)
    images,              \* the enumerated image handles (lines 118-126)
    i,                   \* 1-based position of the for loop in images
    matched_image,       \* the loop's matched_image, None when no match
    events,              \* lines written to the log and relink calls, in order
    classified,          \* what the loop read and decided, per entry reached
    error,               \* the exception that ended the run, None if none
    run,                 \* number of the current run of the script
    prev                 \* summary of the previous run of the script

vars == <<fs, catalog, provider_images, arguments, pc, new_location_files,
          images, i, matched_image, events, classified, error, run, prev>>

----------------------------------------------------------------------------
(* Bounds *)

MaxSeq == 2
MaxRuns == 2

----------------------------------------------------------------------------
(* Sizes *)

Half == 65536

None == <<>>

Zero == <<0, 0>>
Five == <<0, 5>>
Big == <<65535, 65535>>

\* ctypes.c_int32(v).value: v wrapped to a signed 32 bit integer
c_int32(v) ==
    LET lo == v % Half
        hi == (v \div Half) % Half
    IN  IF hi >= Half \div 2 THEN (hi - Half) * Half + lo ELSE hi * Half + lo

\* ctypes.c_uint32(v).value: v wrapped to an unsigned 32 bit integer
c_uint32(v) == <<(v \div Half) % Half, v % Half>>

\* Python truthiness of an int ("if size:")
Truthy(size) == size # Zero

----------------------------------------------------------------------------
(* Paths *)

IMG == <<"IMG", ".CR3">>
B == <<"B", ".CR3">>
DS_STORE == <<".DS_Store">>
THUMB == <<"thumb", ".xmp">>
SUB == <<"sub">>
DEEP == <<"deep">>
SPOTLIGHT == <<".Spotlight-V100">>
ODD == <<"a", "\n", "b">>

Root == << <<"new">> >>
Old == << <<"old">> >>

\* pathlib.PurePath.name
name_of(path) == path[Len(path)]

RECURSIVE as_posix(_)
\* pathlib.PurePath.as_posix of an absolute path, as a sequence of atoms
as_posix(path) ==
    IF path = <<>> THEN <<>>
    ELSE <<"/">> \o Head(path) \o as_posix(Tail(path))

EndIgnored ==
    {".apdisk", ".DS_Store", ".VolumeIcon.icns", ".plist", ".xml",
     ".xmp", ".xmP", ".xMp", ".xMP", ".Xmp", ".XmP", ".XMp", ".XMP"}

DirIgnored == {".Spotlight-V100", ".fseventsd"}

\* "." of the regular expression matches every character but a newline
NoNewlineBefore(s, k) == \A j \in 1..(k - 1) : s[j] # "\n"

\* paths_ignore.match(s): the first alternative ends at the end of the
\* string or before a trailing newline ($), the second one anywhere
paths_ignore(s) ==
    \/ \E k \in 1..Len(s) :
          /\ s[k] \in EndIgnored
          /\ \/ k = Len(s)
             \/ k = Len(s) - 1 /\ s[Len(s)] = "\n"
          /\ NoNewlineBefore(s, k)
    \/ \E k \in 1..Len(s) :
          /\ \/ s[k] \in DirIgnored /\ k < Len(s) /\ s[k + 1] = "/"
             \/ s[k] = ".mpaur2"
          /\ NoNewlineBefore(s, k)

----------------------------------------------------------------------------
(* The file system: the new-location tree and the old location *)

F_top == Root \o <<IMG>>
F_sub == Root \o <<SUB, IMG>>
F_deep == Root \o <<SUB, DEEP, IMG>>
F_b == Root \o <<SUB, B>>
F_ds == Root \o <<DS_STORE>>
F_xmp == Root \o <<SUB, THUMB>>
F_spot == Root \o <<SPOTLIGHT, IMG>>
F_odd == Root \o <<ODD, DS_STORE>>

O_img == Old \o <<IMG>>
O_b == Old \o <<B>>

\* every path the model's new-location tree can hold, top-down
Tree ==
    << F_top, F_ds, Root \o <<SUB>>, F_sub, F_b, F_xmp, Root \o <<SUB, DEEP>>,
       F_deep, Root \o <<SPOTLIGHT>>, F_spot, Root \o <<ODD>>, F_odd >>

\* the file system holding the regular files of S, a set of <<path, size>>
\* pairs; a pair whose size is None stands for a file that is not there
FsOf(S) ==
    LET there == {x \in S : x[2] # None}
    IN  [p \in {x[1] : x \in there} |-> (CHOOSE x \in there : x[1] = p)[2]]

IsPrefix(p, q) == Len(p) < Len(q) /\ SubSeq(q, 1, Len(p)) = p

\* pathlib.Path.is_file
is_file(p) == p \in DOMAIN fs

\* pathlib.Path.is_dir: a directory is there when a file lies under it
is_dir(p) == \E f \in DOMAIN fs : IsPrefix(p, f)

\* pathlib.Path.exists
exists(p) == is_file(p) \/ is_dir(p)

Reverse(s) == [k \in 1..Len(s) |-> s[Len(s) + 1 - k]]

\* path.rglob("*"): everything under path, files and directories; the
\* listing order is the operating system's (rev: the opposite order)
rglob(path, rev) ==
    LET InTree(p) == IsPrefix(path, p) /\ exists(p)
        found == SelectSeq(Tree, InTree)
    IN  IF rev THEN Reverse(found) ELSE found

----------------------------------------------------------------------------
(* PhotoNameSizeKey and the candidate index *)

\* PhotoNameSizeKey.__init__: the key (name, size), or the FileNotFoundError
\* of path.stat() when size is falsy (None or 0) and path is not there.
\* Keys are compared by (name, size): __hash__ and __eq__.
PhotoNameSizeKey(path, size) ==
    IF size # None /\ Truthy(size)
    THEN [raised |-> FALSE, key |-> <<name_of(path), size>>]
    ELSE IF is_file(path)
         THEN [raised |-> FALSE, key |-> <<name_of(path), fs[path]>>]
         ELSE [raised |-> TRUE, key |-> None]

\* lines 55-58 with the duplicate test dropped: the later file replaces
\* the earlier one
InsertOverwriting(ret, key, f) ==
    [raised |-> FALSE,
     ret |-> [k \in DOMAIN ret \cup {key} |-> IF k = key THEN f ELSE ret[k]]]

\* lines 55-58: insert f under key, or raise ValueError(f, ret[key])
Insert(ret, key, f) ==
    IF key \notin DOMAIN ret
    THEN [raised |-> FALSE,
          ret |-> [k \in DOMAIN ret \cup {key} |-> IF k = key THEN f ELSE ret[k]]]
    ELSE [raised |-> TRUE, ret |-> <<f, ret[key]>>]

\* line 53: the files that enter the index
Indexed(f) == is_file(f) /\ ~paths_ignore(as_posix(f))

RECURSIVE directory_loop(_, _)
\* lines 52-59: the loop of generate_directory_dict over the listing,
\* ret the dictionary so far
directory_loop(files, ret) ==
    IF files = <<>> THEN [raised |-> FALSE, ret |-> ret]
    ELSE LET f == Head(files)
         IN  IF Indexed(f)
             THEN LET r == Insert(ret, PhotoNameSizeKey(f, None).key, f)
                  IN  IF r.raised THEN r ELSE directory_loop(Tail(files), r.ret)
             ELSE directory_loop(Tail(files), ret)

\* generate_directory_dict(path), the listing given
generate_directory_dict(files) == directory_loop(files, <<>>)

----------------------------------------------------------------------------
(* The catalog provider and the C1Image properties *)

CatalogOrder == <<"h1", "h2">>
Handles == {CatalogOrder[k] : k \in 1..Len(CatalogOrder)}

NoDup(s) == \A j, k \in 1..Len(s) : j # k => s[j] # s[k]

SeqsUpTo(n) == UNION {[1..k -> Handles] : k \in 0..n}

\* C1Image.filesize: the provider's signed 32 bit value made unsigned
filesize(h) == c_uint32(c_int32(catalog[h].file_size))

\* C1Image.photo_name_size_key
photo_name_size_key(h) == PhotoNameSizeKey(catalog[h].path, filesize(h))

\* lines 116-126: the images the provider yields for the chosen mode
Enumerated ==
    IF arguments.mode = "all" THEN CatalogOrder ELSE provider_images

\* lines 142-144: the lookup in the index
Lookup(key) ==
    IF key \in DOMAIN new_location_files THEN new_location_files[key] ELSE None

\* lines 154-161 with a match reported only when the image is relinked
log_message_when_relinking(h, matched) ==
    IF exists(catalog[h].path) THEN <<"SKIPPING", None>>
    ELSE IF matched # None /\ ~arguments.dry_run
         THEN <<"RELINKED", as_posix(matched)>>
    ELSE <<"NO MATCHING IMAGE FOUND", filesize(h)>>

\* lines 154-161: log_message, as <<classification, detail>>
log_message(h, matched) ==
    IF exists(catalog[h].path) THEN <<"SKIPPING", None>>
    ELSE IF matched # None THEN <<"RELINKED", as_posix(matched)>>
    ELSE <<"NO MATCHING IMAGE FOUND", filesize(h)>>

\* line 162: whether the line is written
Logged(cls) == arguments.verbose \/ cls = "NO MATCHING IMAGE FOUND"

\* line 163: the line written
LogLine(h, msg) ==
    [name |-> catalog[h].name, id |-> catalog[h].id,
     message |-> msg[1], detail |-> msg[2]]

\* line 166 without the test of the original path
ShouldRelinkLinked(h, matched) == matched # None /\ ~arguments.dry_run

\* line 166 without the test of --dry-run
ShouldRelinkDry(h, matched) == ~exists(catalog[h].path) /\ matched # None

\* line 166: whether the image is relinked
ShouldRelink(h, matched) ==
    ~exists(catalog[h].path) /\ matched # None /\ ~arguments.dry_run

----------------------------------------------------------------------------
(* The script *)

NoError == [kind |-> "none", at |-> None]

NoRun == [pc |-> "none", arguments |-> None, events |-> <<>>,
          classified |-> <<>>, error |-> NoError]

\* the state the script starts in, the file system, the catalog and the
\* command line given; --progress and --progress-gui only choose the
\* function that prints (lines 131-136, 147-150) and are left out
Start(files, cat, listing, args) ==
    /\ fs = files
    /\ catalog = cat
    /\ provider_images = listing
    /\ arguments = args
    /\ pc = "index"
    /\ new_location_files = <<>>
    /\ images = <<>>
    /\ i = 1
    /\ matched_image = None
    /\ events = <<>>
    /\ classified = <<>>
    /\ error = NoError
    /\ run = 1
    /\ prev = NoRun

Image(path, size, name, id) ==
    [path |-> path, file_size |-> size, name |-> name, id |-> id]

Args(mode, verbose, dry) == [mode |-> mode, verbose |-> verbose, dry_run |-> dry]

\* what the provider yields in the mode: the whole catalog (its listing is
\* not asked for), a collection (no image twice) or the parents of the
\* selected variants (an image once per selected variant)
Listings(mode) ==
    IF mode = "all" THEN {<<>>}
    ELSE IF mode = "collection" THEN {s \in SeqsUpTo(MaxSeq) : NoDup(s)}
    ELSE SeqsUpTo(MaxSeq)

Modes == {"all", "collection", "selected"}

\* reconciliation: a small new location, catalogs of two images
Init ==
    \E n1 \in {None, Zero, Five, Big}, n2 \in {None, Five},
       o1 \in {None, Zero, Five}, o2 \in {None, Five},
       r1 \in {0, 5, -1}, nm2 \in {B, IMG},
       mode \in Modes, verbose \in BOOLEAN, dry \in BOOLEAN :
       \E listing \in Listings(mode) :
          Start(FsOf({<<F_top, n1>>, <<F_b, n2>>, <<O_img, o1>>, <<O_b, o2>>}),
                [h \in Handles |->
                    IF h = "h1" THEN Image(O_img, r1, IMG, "id1")
                    ELSE Image(O_b, 5, nm2, "id2")],
                listing, Args(mode, verbose, dry))

\* index construction: every tree over the model's paths, one image
InitIndex ==
    \E s1 \in {None, Zero, Five}, s2 \in {None, Zero, Five},
       s3 \in {None, Five}, s4 \in {None, Five}, s5 \in {None, Five},
       s6 \in {None, Five}, s7 \in {None, Five}, s8 \in {None, Five},
       verbose \in BOOLEAN, dry \in BOOLEAN :
          Start(FsOf({<<F_top, s1>>, <<F_sub, s2>>, <<F_deep, s3>>,
                      <<F_ds, s4>>, <<F_xmp, s5>>, <<F_spot, s6>>,
                      <<F_odd, s7>>, <<F_b, s8>>}),
                [h \in Handles |->
                    IF h = "h1" THEN Image(O_img, 5, IMG, "id1")
                    ELSE Image(O_b, 5, B, "id2")],
                <<>>, Args("all", verbose, dry))

\* repeated runs: images linked, missing with a candidate, missing without
InitPasses ==
    \E n1 \in {None, Five}, n2 \in {None, Five}, o1 \in {None, Five},
       r1 \in {0, 5}, verbose \in BOOLEAN, dry \in BOOLEAN :
       \E listing \in Listings("selected") :
          Start(FsOf({<<F_top, n1>>, <<F_b, n2>>, <<O_img, o1>>}),
                [h \in Handles |->
                    IF h = "h1" THEN Image(O_img, r1, IMG, "id1")
                    ELSE Image(O_b, 5, B, "id2")],
                listing, Args("selected", verbose, dry))

\* line 111: the index is built, or the ValueError of line 58 ends the run
BuildIndex ==
    /\ pc = "index"
    /\ \E rev \in BOOLEAN :
          LET r == generate_directory_dict(rglob(Root, rev))
          IN  IF r.raised
              THEN /\ pc' = "failed"
                   /\ error' = [kind |-> "ValueError", at |-> r.ret]
                   /\ UNCHANGED new_location_files
              ELSE /\ pc' = "enumerate"
                   /\ new_location_files' = r.ret
                   /\ UNCHANGED error
    /\ UNCHANGED <<fs, catalog, provider_images, arguments, images, i,
                   matched_image, events, classified, run, prev>>

\* lines 116-136: the images are asked of the provider
Enumerate ==
    /\ pc = "enumerate"
    /\ images' = Enumerated
    /\ i' = 1
    /\ pc' = "loop"
    /\ UNCHANGED <<fs, catalog, provider_images, arguments, new_location_files,
                   matched_image, events, classified, error, run, prev>>

\* the record of one entry of the loop: the properties read of the image
\* (lines 65-98), the key, the match and the classification
Read(h, key, matched, message) ==
    [image |-> h, path |-> catalog[h].path, name |-> catalog[h].name,
     reported |-> catalog[h].file_size, size |-> filesize(h), key |-> key,
     matched |-> matched, message |-> message]

\* lines 139-166: one image is looked up, classified and logged; the
\* FileNotFoundError of the key ends the run
Iterate ==
    /\ pc = "loop"
    /\ i <= Len(images)
    /\ LET h == images[i]
           k == photo_name_size_key(h)
       IN  IF k.raised
           THEN /\ pc' = "failed"
                /\ error' = [kind |-> "FileNotFoundError", at |-> i]
                /\ classified' = Append(classified, Read(h, k.key, None, "raised"))
                /\ UNCHANGED <<i, matched_image, events>>
           ELSE LET matched == Lookup(k.key)
                    msg == log_message(h, matched)
                IN  /\ matched_image' = matched
                    /\ classified' = Append(classified, Read(h, k.key, matched, msg[1]))
                    /\ events' = IF Logged(msg[1])
                                 THEN Append(events, [type |-> "log", at |-> i,
                                                      line |-> LogLine(h, msg)])
                                 ELSE events
                    /\ IF ShouldRelink(h, matched)
                       THEN pc' = "relink" /\ UNCHANGED i
                       ELSE pc' = "loop" /\ i' = i + 1
                    /\ UNCHANGED error
    /\ UNCHANGED <<fs, catalog, provider_images, arguments, new_location_files,
                   images, run, prev>>

\* the call of line 101 as the script issues it
RelinkCall == [type |-> "relink", at |-> i, image |-> images[i],
               to_path |-> as_posix(matched_image)]

\* line 167 passing the image's own path instead of the match
RelinkDoneToOriginal ==
    /\ pc = "relink"
    /\ events' = Append(events, [RelinkCall EXCEPT
                                    !.to_path = as_posix(catalog[images[i]].path)])
    /\ i' = i + 1
    /\ pc' = "loop"
    /\ UNCHANGED <<fs, catalog, provider_images, arguments, new_location_files,
                   images, matched_image, classified, error, run, prev>>

\* lines 100-101, 167: the provider relinks the image and replies
RelinkDone ==
    /\ pc = "relink"
    /\ events' = Append(events, RelinkCall)
    /\ catalog' = [catalog EXCEPT ![images[i]].path = matched_image]
    /\ i' = i + 1
    /\ pc' = "loop"
    /\ UNCHANGED <<fs, provider_images, arguments, new_location_files, images,
                   matched_image, classified, error, run, prev>>

\* line 167 inside a try block that goes on with the next image
RelinkTimeoutSwallowed ==
    /\ pc = "relink"
    /\ events' = Append(events, RelinkCall)
    /\ pc' = "loop"
    /\ i' = i + 1
    /\ error' = [kind |-> "CommandError", at |-> i]
    /\ UNCHANGED <<fs, catalog, provider_images, arguments, new_location_files,
                   images, matched_image, classified, run, prev>>

\* lines 100-101, 167: the provider does not reply in time (it may or
\* may not have relinked the image); the exception is not caught and ends
\* the run
RelinkTimeout ==
    /\ pc = "relink"
    /\ events' = Append(events, RelinkCall)
    /\ \E applied \in BOOLEAN :
          catalog' = IF applied
                     THEN [catalog EXCEPT ![images[i]].path = matched_image]
                     ELSE catalog
    /\ pc' = "failed"
    /\ error' = [kind |-> "CommandError", at |-> i]
    /\ UNCHANGED <<fs, provider_images, arguments, new_location_files,
                   images, i, matched_image, classified, run, prev>>

\* line 139: the loop is over and the script ends
Finish ==
    /\ pc = "loop"
    /\ i > Len(images)
    /\ pc' = "done"
    /\ UNCHANGED <<fs, catalog, provider_images, arguments, new_location_files,
                   images, i, matched_image, events, classified, error, run, prev>>

\* the script is started again, on the same files and the same selection
RunAgain ==
    /\ pc \in {"done", "failed"}
    /\ run < MaxRuns
    /\ \E verbose \in BOOLEAN, dry \in BOOLEAN :
          arguments' = Args(arguments.mode, verbose, dry)
    /\ prev' = [pc |-> pc, arguments |-> arguments, events |-> events,
                classified |-> classified, error |-> error]
    /\ run' = run + 1
    /\ pc' = "index"
    /\ new_location_files' = <<>>
    /\ images' = <<>>
    /\ i' = 1
    /\ matched_image' = None
    /\ events' = <<>>
    /\ classified' = <<>>
    /\ error' = NoError
    /\ UNCHANGED <<fs, catalog, provider_images>>

Next ==
    \/ BuildIndex
    \/ Enumerate
    \/ Iterate
    \/ RelinkDone
    \/ RelinkTimeout
    \/ Finish

NextPasses ==
    \/ Next
    \/ RunAgain

Spec == Init /\ [][Next]_vars

SpecIndex == InitIndex /\ [][Next]_vars

SpecPasses == InitPasses /\ [][NextPasses]_vars

----------------------------------------------------------------------------
(* Properties *)

NoMatch == "NO MATCHING IMAGE FOUND"

\* the value v of the provider as an unsigned 32 bit number: v modulo 2^32
Unsigned32(v) == IF v >= 0 THEN <<v \div Half, v % Half>>
                 ELSE <<(v \div Half) + Half, v % Half>>

IsLog(e) == e.type = "log"
IsRelink(e) == e.type = "relink"

\* the log of a run: the lines written, in order
LogLinesOf(ev) ==
    LET logs == SelectSeq(ev, IsLog)
    IN  [k \in 1..Len(logs) |-> logs[k].line]

\* positions in ev of the relink calls, of the log lines, for entry k
RelinksAt(ev, k) == {j \in 1..Len(ev) : IsRelink(ev[j]) /\ ev[j].at = k}
LogsAt(ev, k) == {j \in 1..Len(ev) : IsLog(ev[j]) /\ ev[j].at = k}

NoRelinkIn(ev) == \A j \in 1..Len(ev) : ~IsRelink(ev[j])

InNewLocation(f) == f \in DOMAIN fs /\ IsPrefix(Root, f)

NonIgnored == {f \in DOMAIN fs : InNewLocation(f) /\ ~paths_ignore(as_posix(f))}

\* two distinct non-ignored regular files share name and size
Collision ==
    \E f, g \in NonIgnored :
        f # g /\ name_of(f) = name_of(g) /\ fs[f] = fs[g]

Ended == pc \in {"done", "failed"}

\* C1: no relink call is issued for an entry whose original path exists on
\* the file system when the entry is processed, candidate or not
C1Theorem ==
    \A j \in 1..Len(events) :
        IsRelink(events[j]) => ~exists(classified[events[j].at].path)

\* C1: an entry whose original exists, with a candidate of the same name
\* and size in the index, went through a pass that does relink
C1Witness ==
    /\ pc = "done"
    /\ ~arguments.dry_run
    /\ \E k \in 1..Len(classified) :
          /\ exists(classified[k].path)
          /\ classified[k].matched # None

\* C2: under --dry-run no step issues a relink call or changes a link
\* record of the catalog
C2Theorem ==
    [][arguments.dry_run => (catalog' = catalog /\ NoRelinkIn(events'))]_vars

\* C2: a dry run that met an image it would have relinked has ended
C2Witness ==
    /\ pc = "done"
    /\ arguments.dry_run
    /\ \E k \in 1..Len(classified) : classified[k].message = "RELINKED"

\* C4: when two distinct non-ignored files of the new location share name
\* and size, the run ends in the ValueError of the index naming two such
\* files, and no image is enumerated, logged or relinked
C4Theorem ==
    Collision =>
        /\ pc \in {"index", "failed"}
        /\ pc = "failed" =>
              /\ error.kind = "ValueError"
              /\ error.at[1] \in NonIgnored /\ error.at[2] \in NonIgnored
              /\ error.at[1] # error.at[2]
              /\ name_of(error.at[1]) = name_of(error.at[2])
              /\ fs[error.at[1]] = fs[error.at[2]]
        /\ new_location_files = <<>>
        /\ images = <<>> /\ events = <<>> /\ classified = <<>>

\* C4: the index failed on two files at different depths
C4Witness ==
    /\ Collision
    /\ pc = "failed"
    /\ error.kind = "ValueError"
    /\ Len(error.at[1]) # Len(error.at[2])

\* the index holds exactly the non-ignored regular files, each under the
\* key of its own name and size (the part of C5 that the code meets)
IndexExact ==
    (pc # "index" /\ ~Collision) =>
        /\ error.kind # "ValueError"
        /\ DOMAIN new_location_files = {<<name_of(f), fs[f]>> : f \in NonIgnored}
        /\ \A f \in NonIgnored : new_location_files[<<name_of(f), fs[f]>>] = f
        /\ Cardinality(DOMAIN new_location_files) = Cardinality(NonIgnored)

\* a file named .DS_Store, ending in .xmp, or under a .Spotlight-V100/
NamedAsIgnored(p) ==
    \/ name_of(p) = DS_STORE
    \/ name_of(p)[Len(name_of(p))] = ".xmp"
    \/ \E j \in 1..(Len(p) - 1) : p[j] = SPOTLIGHT

\* C5: with pairwise distinct (name, size) pairs the index is built and
\* holds exactly the non-ignored files, each under its own key, and no file
\* named .DS_Store, ending in .xmp or under .Spotlight-V100/ is a value
C5Claim ==
    /\ IndexExact
    /\ \A k \in DOMAIN new_location_files : ~NamedAsIgnored(new_location_files[k])

\* C6: after a pass that relinks, every entry reached whose original is
\* missing and whose key (display name, corrected declared size) is in the
\* index has exactly one relink call, to the path the index stores under
\* that key, a file of that name and size
C6Claim ==
    (Ended /\ ~arguments.dry_run) =>
        \A k \in 1..Len(classified) :
            LET c == classified[k]
                key == <<c.name, Unsigned32(c.reported)>>
            IN  (~exists(c.path) /\ key \in DOMAIN new_location_files) =>
                    /\ Cardinality(RelinksAt(events, k)) = 1
                    /\ \A j \in RelinksAt(events, k) :
                          /\ events[j].to_path = as_posix(new_location_files[key])
                          /\ name_of(new_location_files[key]) = c.name
                          /\ fs[new_location_files[key]] = Unsigned32(c.reported)

\* the new location holds no file of the size under either name of c
NoCandidate(c) ==
    \A f \in DOMAIN fs :
        InNewLocation(f) =>
            ~(/\ name_of(f) \in {c.name, name_of(c.path)}
              /\ fs[f] = Unsigned32(c.reported))

\* C7: after a pass, every entry reached whose original is missing and
\* that has no candidate has exactly one log line, "no matching image
\* found" with its declared size, verbose or not; an entry classified
\* otherwise has a line only under --verbose
C7Claim ==
    Ended =>
        \A k \in 1..Len(classified) :
            LET c == classified[k]
            IN  /\ (~exists(c.path) /\ NoCandidate(c)) =>
                      /\ Cardinality(LogsAt(events, k)) = 1
                      /\ \A j \in LogsAt(events, k) :
                            /\ events[j].line.message = NoMatch
                            /\ events[j].line.detail = Unsigned32(c.reported)
                /\ (c.message # NoMatch /\ ~arguments.verbose) =>
                      LogsAt(events, k) = {}

\* the size read of the provider is its value modulo 2^32 (the part of C9
\* that the code meets: C1Image.filesize)
FilesizeUnsigned ==
    \A k \in 1..Len(classified) :
        classified[k].size = Unsigned32(classified[k].reported)

\* C9: the size in the key computed for an entry, and in its log line, is
\* the value the provider reports modulo 2^32
C9Claim ==
    \A k \in 1..Len(classified) :
        LET c == classified[k]
        IN  /\ c.key # None => c.key[2] = Unsigned32(c.reported)
            /\ \A j \in LogsAt(events, k) :
                  events[j].line.message = NoMatch =>
                      events[j].line.detail = Unsigned32(c.reported)

\* C10: entries are taken one at a time in the order enumerated, the log
\* line of an entry precedes its relink call, a call is issued at most
\* once, and a call that fails ends the run there: it is the last event
\* and no later entry is read, logged or relinked
C10Theorem ==
    /\ Len(classified) \in {i - 1, i}
    /\ \A k \in 1..Len(classified) : classified[k].image = images[k]
    /\ \A j1, j2 \in 1..Len(events) :
          /\ j1 < j2 => events[j1].at <= events[j2].at
          /\ (IsRelink(events[j1]) /\ IsLog(events[j2])
                 /\ events[j1].at = events[j2].at) => j2 < j1
    /\ \A k \in 1..Len(images) : Cardinality(RelinksAt(events, k)) <= 1
    /\ error.kind = "CommandError" =>
          /\ pc = "failed"
          /\ i = error.at
          /\ Len(classified) = error.at
          /\ events # <<>>
          /\ IsRelink(events[Len(events)])
          /\ events[Len(events)].at = error.at

\* C10: a relink call failed on an entry that was logged, with a further
\* entry behind it
C10Witness ==
    /\ error.kind = "CommandError"
    /\ pc = "failed"
    /\ error.at < Len(images)
    /\ LogsAt(events, error.at) # {}

\* a run that ended, not by a failed relink call
EndedWithoutTimeout(p, e) == p \in {"done", "failed"} /\ e.kind # "CommandError"

\* a dry run and then a run that relinks, same files, same catalog, same
\* enumeration and same verbosity, both ended
DryThenReal ==
    /\ run > 1
    /\ prev.arguments.dry_run
    /\ ~arguments.dry_run
    /\ prev.arguments.verbose = arguments.verbose
    /\ EndedWithoutTimeout(prev.pc, prev.error)
    /\ EndedWithoutTimeout(pc, error)

\* no image that was relinked occurs again later in the enumeration
NoRepeatAfterRelink ==
    \A j \in 1..Len(events) :
        IsRelink(events[j]) =>
            \A k \in (events[j].at + 1)..Len(images) : images[k] # events[j].image

\* C3 as stated: the dry run and the run that relinks write the same log
C3Claim == DryThenReal => LogLinesOf(prev.events) = LogLinesOf(events)

\* C3 amended: the dry run and the run that relinks write the same log
\* when the log is not verbose or no relinked image is enumerated again
C3Theorem ==
    (DryThenReal /\ (~arguments.verbose \/ NoRepeatAfterRelink)) =>
        LogLinesOf(prev.events) = LogLinesOf(events)

\* C3: a verbose dry run and a verbose run that relinked an image ended
C3Witness ==
    /\ DryThenReal
    /\ arguments.verbose
    /\ NoRepeatAfterRelink
    /\ ~NoRelinkIn(events)
    /\ Len(images) > 1

\* a completed pass that relinks, then a second pass that completed
SecondPass ==
    /\ run > 1
    /\ ~prev.arguments.dry_run
    /\ prev.pc = "done"
    /\ pc = "done"

\* C8 as stated: the second pass classifies every entry as skipping and
\* issues no relink call
C8Claim ==
    SecondPass =>
        /\ \A k \in 1..Len(classified) : classified[k].message = "SKIPPING"
        /\ NoRelinkIn(events)

\* C8 amended: after a completed pass that relinks, a second pass does not
\* fail, issues no relink call, and classifies as skipping every entry but
\* those the first pass found no match for, which it finds no match for
\* again
C8Theorem ==
    (run > 1 /\ ~prev.arguments.dry_run /\ prev.pc = "done") =>
        /\ pc # "failed"
        /\ NoRelinkIn(events)
        /\ pc = "done" =>
              /\ Len(classified) = Len(prev.classified)
              /\ \A k \in 1..Len(classified) :
                    classified[k].message =
                        IF prev.classified[k].message = NoMatch
                        THEN NoMatch ELSE "SKIPPING"

\* C8: the first pass relinked an image and the second pass completed
C8Witness ==
    /\ SecondPass
    /\ ~NoRelinkIn(prev.events)
    /\ Len(classified) > 1

====
